---- MODULE Spec2Model ----
(***************************************************************************)
(* Pricing and order-lifecycle core of the e-commerce backend: the coupon  *)
(* model (rule evaluation and usage ledger), the coupon controller         *)
(* (applyCoupon / removeCoupon / updateCoupon) and the order controller    *)
(* (createOrder with stock decrement and order-identifier generation).     *)
(*                                                                         *)
(* Every request handler is an async function: the code between two awaits *)
(* runs without interleaving, every awaited read or write of the store is  *)
(* one step, and requests interleave at those steps.  A document's save()  *)
(* sends only the paths modified on the in-memory copy.                    *)
(*                                                                         *)
(* Money is counted in hundredths of a paisa (Rs 1 = 100 paise = 10000),   *)
(* so that a percentage of a whole-paisa amount is exact.                  *)
(***************************************************************************)
EXTENDS Integers, Sequences, FiniteSets, TLC

\* ------------------------------------------------------------------ bounds
MaxReq == 3          \* concurrent coupon-controller requests
MaxCreate == 2       \* concurrent createOrder requests
MaxStock == 2        \* initial stock of a product
MaxQty == 2          \* largest quantity of one line item
MaxDay == 1          \* number of midnights that may pass
MaxCart == 5         \* cart totals tried by the evaluator: 0 .. MaxCart * Rs(200)
MaxLife == 3         \* order-lifecycle requests
MaxClock == 17       \* last half day the lifecycle clock reaches
MaxOverlap == 2      \* lifecycle requests in flight at a time

\* ------------------------------------------------------- program constants
NoLimit == 0         \* maxUsageLimit absent: falsy in `this.maxUsageLimit && ...`
NoDate == 0          \* lastUsedAt absent
Percent == 100       \* the divisor of (cartTotal * discountValue) / 100
ReturnDays == 7      \* requestReturn: `daysSinceDelivery > 7`
HalfDaysPerDay == 2  \* the day of (1000 * 60 * 60 * 24) ms, in clock units

\* n paise and n rupees, in hundredths of a paisa
Paisa(n) == n * 100
Rs(n) == Paisa(n * 100)

Procs == 1..MaxReq
Users == {"u1", "u2"}
OrderIds == {1, 2}
Products == {"p1", "p2"}

VARIABLES
    now,        \* the clock (new Date()), in days
    coupon,     \* the stored Coupon document
    orders,     \* the stored Order documents the coupon controller works on
    pc,         \* position of each coupon-controller request
    req,        \* in-memory state of each coupon-controller request
    commits,    \* per order: completed coupon.applyCoupon saves (history variable)
    evalIn,     \* evaluator inputs of the pure-function specification
    evalOut,    \* evaluator result of the pure-function specification
    products,   \* the stored Product documents (createOrder)
    placed,     \* the stored Order documents created by createOrder
    cpc,        \* position of each createOrder request
    creq,       \* in-memory state of each createOrder request
    clock,      \* the clock (Date.now()) of the order lifecycle, in half days
    lorder,     \* the stored Order document the lifecycle requests work on
    lpc,        \* position of each lifecycle request
    lreq,       \* in-memory state of each lifecycle request
    shipments   \* number of stored Shipment documents of that order

couponVars == <<coupon, orders, pc, req, commits>>
evalVars == <<evalIn, evalOut>>
createVars == <<products, placed, cpc, creq>>
lifeVars == <<clock, lorder, lpc, lreq, shipments>>
vars == <<now, coupon, orders, pc, req, commits, evalIn, evalOut,
          products, placed, cpc, creq, clock, lorder, lpc, lreq, shipments>>

\* ------------------------------------------------------------ coupon model

\* order.coupon of an order that never had, or no longer has, a coupon
NoCoupon ==
    [present |-> FALSE, discountType |-> "none", discountAmount |-> 0,
     freeShipping |-> FALSE, appliedAt |-> NoDate]

Max(a, b) == IF a > b THEN a ELSE b

\* couponSchema.pre('save'): TRUE when the hook throws nothing.  The first
\* percentage test compares the discountType string with 1 (`this.discountType
\* < 1`), which is never true, so only the upper end of the range is enforced.
PreSaveOk(c, t) ==
    /\ (c.discountType = "percentage") =>
          /\ ~(c.discountValue > 100)
          /\ c.maxDiscountAmount # 0
    /\ (c.discountType = "fixed") => ~(c.discountValue < Rs(1))
    /\ ~(c.validUntil <= c.validFrom)
    /\ ~(c.validUntil <= t)

\* couponSchema.discountValue: the schema validator min: 0, run by every save
SchemaOk(c) == c.discountValue >= 0

\* an isValid that tests the global usage limit before the dates
isValidMutant(c, t) ==
    IF ~c.isActive THEN [valid |-> FALSE, reason |-> "NotActive"]
    ELSE IF c.maxUsageLimit # NoLimit /\ c.usageCount >= c.maxUsageLimit
         THEN [valid |-> FALSE, reason |-> "GlobalLimitReached"]
    ELSE IF t > c.validUntil THEN [valid |-> FALSE, reason |-> "Expired"]
    ELSE IF t < c.validFrom THEN [valid |-> FALSE, reason |-> "NotYetValid"]
    ELSE [valid |-> TRUE, reason |-> "ok"]

\* couponSchema.methods.isValid
isValid(c, t) ==
    IF ~c.isActive THEN [valid |-> FALSE, reason |-> "NotActive"]
    ELSE IF t > c.validUntil THEN [valid |-> FALSE, reason |-> "Expired"]
    ELSE IF t < c.validFrom THEN [valid |-> FALSE, reason |-> "NotYetValid"]
    ELSE IF c.maxUsageLimit # NoLimit /\ c.usageCount >= c.maxUsageLimit
         THEN [valid |-> FALSE, reason |-> "GlobalLimitReached"]
    ELSE [valid |-> TRUE, reason |-> "ok"]

\* this.userUsage.find(u => u.user.toString() === userId.toString()):
\* the index of the first entry of the user, 0 when there is none
FindUsage(c, u) ==
    LET idx == {i \in 1..Len(c.userUsage) : c.userUsage[i].user = u}
    IN IF idx = {} THEN 0 ELSE CHOOSE i \in idx : \A j \in idx : i <= j

\* a canUserUse that never finds the user at the cap
UserLimitReachedMutant(c, u) == FALSE

\* the user-usage-limit test of canUserUse, on the entry found
UserLimitReached(c, u) ==
    LET i == FindUsage(c, u)
    IN i # 0 /\ c.userUsage[i].usedCount >= c.maxUsagePerUser

\* couponSchema.methods.canUserUse
canUserUse(c, u, t) ==
    LET validation == isValid(c, t)
    IN IF ~validation.valid THEN validation
       ELSE IF c.applicableUsers # {} /\ u \notin c.applicableUsers
            THEN [valid |-> FALSE, reason |-> "UserNotEligible"]
       ELSE IF UserLimitReached(c, u)
            THEN [valid |-> FALSE, reason |-> "UserLimitReached"]
       ELSE [valid |-> TRUE, reason |-> "ok"]

\* a discount computation without the two caps
DiscountAmountMutant(c, cartTotal) ==
    IF c.discountType = "percentage" THEN (cartTotal * c.discountValue) \div Percent
    ELSE c.discountValue

\* the discount computation of calculateDiscount (after the eligibility tests)
DiscountAmount(c, cartTotal) ==
    IF c.discountType = "percentage"
    THEN LET d == (cartTotal * c.discountValue) \div Percent
         IN IF d > c.maxDiscountAmount THEN c.maxDiscountAmount ELSE d
    ELSE IF c.discountType = "fixed"
    THEN IF c.discountValue > cartTotal THEN cartTotal ELSE c.discountValue
    ELSE 0

\* couponSchema.methods.calculateDiscount; cartItems is the set of product ids
calculateDiscount(c, cartTotal, cartItems) ==
    LET fail(r) == [valid |-> FALSE, reason |-> r, discountAmount |-> 0,
                    freeShipping |-> FALSE, finalTotal |-> cartTotal]
    IN IF cartTotal < c.minOrderValue THEN fail("BelowMinimumOrderValue")
       ELSE IF c.applicableProducts # {} /\ cartItems \cap c.applicableProducts = {}
            THEN fail("NoApplicableItems")
       ELSE IF c.excludedProducts # {} /\ cartItems \cap c.excludedProducts # {}
            THEN fail("ExcludedItemPresent")
       ELSE LET d == DiscountAmount(c, cartTotal)
            IN [valid |-> TRUE, reason |-> "ok", discountAmount |-> d,
                freeShipping |-> c.freeShipping, finalTotal |-> cartTotal - d]

\* couponSchema.statics.findValidCoupon: the query's filter on the stored coupon
findValidCoupon(c, t) == c.isActive /\ c.validUntil > t /\ c.validFrom <= t

\* ------------------------------------------------------------- order model

\* order.coupon after removeCoupon's `order.coupon = null`
NullCoupon ==
    [present |-> FALSE, discountType |-> "null", discountAmount |-> 0,
     freeShipping |-> FALSE, appliedAt |-> NoDate]

\* orderSchema.coupon is a nested path, not a subdocument: its getter returns
\* an object whether or not a coupon was ever set, so `order.coupon` is truthy
\* and removeCoupon's `if (!order.coupon)` rejection never fires
NestedCouponTruthy(o) == TRUE

\* orderSchema.methods.calculateTotal's discount: the snapshot's amount, if any
SnapshotDiscount(o) == IF o.coupon.present THEN o.coupon.discountAmount ELSE 0

\* document.save() of an order changed by the coupon controller: the paths
\* assigned a value different from the loaded one are written to the stored
\* document.  The snapshot carries appliedAt: new Date() and always differs;
\* null differs from an absent coupon and from a snapshot, not from null.
SaveOrder(stored, loaded, local) ==
    [stored EXCEPT
        !.coupon = IF local.coupon.present \/ loaded.coupon # local.coupon
                   THEN local.coupon ELSE @,
        !.totalAmount = IF local.totalAmount # loaded.totalAmount
                        THEN local.totalAmount ELSE @]

\* ------------------------------------------------------ coupon controller

\* an applyCoupon that snapshots the coupon's discountValue, not the result
ApplyToOrderMutant(o, c, d, t) ==
    [o EXCEPT
        !.coupon = [present |-> TRUE, discountType |-> c.discountType,
                    discountAmount |-> c.discountValue,
                    freeShipping |-> d.freeShipping, appliedAt |-> t],
        !.totalAmount = o.subtotal - c.discountValue + o.shippingCharge]

\* applyCoupon, lines 466-484: the snapshot and the recomputed total on the
\* in-memory order
ApplyToOrder(o, c, d, t) ==
    LET shippingCharge == IF d.freeShipping THEN 0 ELSE o.shippingCharge
    IN [o EXCEPT
          !.coupon = [present |-> TRUE, discountType |-> c.discountType,
                      discountAmount |-> d.discountAmount,
                      freeShipping |-> d.freeShipping, appliedAt |-> t],
          !.totalAmount = o.subtotal - d.discountAmount + shippingCharge]

RemoveFromOrderMutant(o) == [o EXCEPT !.coupon = NullCoupon]

\* removeCoupon, lines 546-551, on the in-memory order
RemoveFromOrder(o) ==
    [o EXCEPT !.coupon = NullCoupon,
              !.totalAmount = o.subtotal + o.shippingCharge]

\* couponSchema.methods.applyCoupon followed by save(): the update sent to the
\* store, applied to the stored coupon.  `loaded` is the request's in-memory
\* coupon.  usageCount is assigned (read + 1) and sent as a $set.  For a user
\* with an entry, the entry's usedCount and lastUsedAt are assigned and the
\* history record is pushed, addressed by the entry's index.  For a user
\* without one, push() casts the plain object into a new subdocument, and the
\* increment and the history record go to the plain object: the entry is
\* stored with usedCount 0 and no history.
CommitUsage(stored, loaded, u, o, d, t) ==
    LET i == FindUsage(loaded, u)
        rec == [orderId |-> o, discountAmount |-> d]
    IN IF i = 0
       THEN [stored EXCEPT
               !.usageCount = loaded.usageCount + 1,
               !.userUsage = Append(@, [user |-> u, usedCount |-> 0,
                                        lastUsedAt |-> NoDate,
                                        usageHistory |-> <<>>])]
       ELSE [stored EXCEPT
               !.usageCount = loaded.usageCount + 1,
               !.userUsage[i].usedCount = loaded.userUsage[i].usedCount + 1,
               !.userUsage[i].lastUsedAt = t,
               !.userUsage[i].usageHistory = Append(@, rec)]

Idle == [kind |-> "none"]

\* a request that has answered holds nothing any more
Answered(r) == Idle

\* requests are numbered in their order of arrival
Arrives(p) == pc[p] = "idle" /\ \A q \in Procs : q < p => pc[q] # "idle"

\* applyCoupon, lines 415-430: Order.findById and the ownership test
ApplyFindOrder(p, u, o) ==
    /\ Arrives(p)
    /\ IF orders[o].user # u
       THEN /\ req' = [req EXCEPT ![p] = Idle]
            /\ pc' = [pc EXCEPT ![p] = "rejected"]
       ELSE /\ req' = [req EXCEPT ![p] = [kind |-> "apply", user |-> u,
                                          order |-> o, ord0 |-> orders[o],
                                          ord |-> orders[o], cpn0 |-> coupon]]
            /\ pc' = [pc EXCEPT ![p] = "apply_findCoupon"]
    /\ UNCHANGED <<now, coupon, orders, commits, evalVars, createVars, lifeVars>>

\* applyCoupon, lines 432-484: Coupon.findValidCoupon, canUserUse,
\* calculateDiscount and the changes to the in-memory order, up to order.save()
ApplyFindCoupon(p) ==
    /\ pc[p] = "apply_findCoupon"
    /\ LET r == req[p]
           v == canUserUse(coupon, r.user, now)
           d == calculateDiscount(coupon, r.ord.subtotal, r.ord.items)
       IN IF findValidCoupon(coupon, now) /\ v.valid /\ d.valid
          THEN /\ req' = [req EXCEPT ![p].cpn0 = coupon,
                                     ![p].ord = ApplyToOrder(r.ord, coupon, d, now)]
               /\ pc' = [pc EXCEPT ![p] = "apply_saveOrder"]
          ELSE /\ req' = [req EXCEPT ![p] = Answered(r)]
               /\ pc' = [pc EXCEPT ![p] = "rejected"]
    /\ UNCHANGED <<now, coupon, orders, commits, evalVars, createVars, lifeVars>>

\* applyCoupon, line 486: await order.save()
ApplySaveOrder(p) ==
    /\ pc[p] = "apply_saveOrder"
    /\ orders' = [orders EXCEPT ![req[p].order] =
                     SaveOrder(@, req[p].ord0, req[p].ord)]
    /\ pc' = [pc EXCEPT ![p] = "apply_commit"]
    /\ UNCHANGED <<now, coupon, req, commits, evalVars, createVars, lifeVars>>

\* applyCoupon, line 489: await coupon.applyCoupon(...), whose save() runs the
\* pre-save hook on the in-memory coupon
ApplyCommit(p) ==
    /\ pc[p] = "apply_commit"
    /\ LET r == req[p]
           d == r.ord.coupon.discountAmount
       IN IF PreSaveOk(r.cpn0, now) /\ SchemaOk(r.cpn0)
          THEN /\ coupon' = CommitUsage(coupon, r.cpn0, r.user, r.order, d, now)
               /\ commits' = [commits EXCEPT ![r.order] = @ + 1]
               /\ pc' = [pc EXCEPT ![p] = "done"]
               /\ req' = [req EXCEPT ![p] = Answered(r)]
          ELSE /\ pc' = [pc EXCEPT ![p] = "failed"]
               /\ req' = [req EXCEPT ![p] = Answered(r)]
               /\ UNCHANGED <<coupon, commits>>
    /\ UNCHANGED <<now, orders, evalVars, createVars, lifeVars>>

\* removeCoupon, lines 519-551: Order.findById, the tests and the changes to
\* the in-memory order
RemoveFindOrder(p, u, o) ==
    /\ Arrives(p)
    /\ IF orders[o].user = u /\ NestedCouponTruthy(orders[o])
       THEN /\ req' = [req EXCEPT ![p] =
                          [kind |-> "remove", user |-> u, order |-> o,
                           ord0 |-> orders[o],
                           ord |-> RemoveFromOrder(orders[o])]]
            /\ pc' = [pc EXCEPT ![p] = "remove_save"]
       ELSE /\ req' = [req EXCEPT ![p] = Idle]
            /\ pc' = [pc EXCEPT ![p] = "rejected"]
    /\ UNCHANGED <<now, coupon, orders, commits, evalVars, createVars, lifeVars>>

RemoveSaveMutant(p) ==
    /\ pc[p] = "remove_save"
    /\ orders' = [orders EXCEPT ![req[p].order] =
                     SaveOrder(@, req[p].ord0, req[p].ord)]
    /\ coupon' = [coupon EXCEPT !.usageCount = Max(0, @ - 1)]
    /\ pc' = [pc EXCEPT ![p] = "done"]
    /\ req' = [req EXCEPT ![p] = Answered(req[p])]
    /\ UNCHANGED <<now, commits, evalVars, createVars, lifeVars>>

\* removeCoupon, line 553: await order.save()
RemoveSave(p) ==
    /\ pc[p] = "remove_save"
    /\ orders' = [orders EXCEPT ![req[p].order] =
                     SaveOrder(@, req[p].ord0, req[p].ord)]
    /\ pc' = [pc EXCEPT ![p] = "done"]
    /\ req' = [req EXCEPT ![p] = Answered(req[p])]
    /\ UNCHANGED <<now, coupon, commits, evalVars, createVars, lifeVars>>

\* the request bodies an administrator sends to updateCoupon: one field each,
\* a cap of at least 1
Patches ==
    [field : {"maxUsageLimit"}, value : {1, 2}]
    \cup [field : {"maxUsagePerUser"}, value : {1}]

\* the fields updateCoupon assigns from the request body
UpdatableFields ==
    {"discountType", "discountValue", "maxDiscountAmount", "minOrderValue",
     "maxUsageLimit", "maxUsagePerUser", "validUntil", "isActive",
     "freeShipping"}

\* updateCoupon, lines 223-235, on the in-memory coupon
PatchCoupon(c, patch) == [c EXCEPT ![patch.field] = patch.value]

\* coupon.save() in updateCoupon: the assigned fields that differ from the
\* loaded ones are written
SaveCouponFields(stored, loaded, local) ==
    [f \in DOMAIN stored |->
        IF f \in UpdatableFields /\ local[f] # loaded[f]
        THEN local[f] ELSE stored[f]]

\* updateCoupon, lines 206-237: Coupon.findById and the field assignments
UpdateFindCoupon(p, patch) ==
    /\ Arrives(p)
    /\ req' = [req EXCEPT ![p] = [kind |-> "update", cpn0 |-> coupon,
                                  cpn |-> PatchCoupon(coupon, patch)]]
    /\ pc' = [pc EXCEPT ![p] = "update_save"]
    /\ UNCHANGED <<now, coupon, orders, commits, evalVars, createVars, lifeVars>>

\* an updateCoupon whose save also rewrites the snapshots of the orders
UpdateSaveMutant(p) ==
    /\ pc[p] = "update_save"
    /\ IF PreSaveOk(req[p].cpn, now) /\ SchemaOk(req[p].cpn)
       THEN /\ coupon' = SaveCouponFields(coupon, req[p].cpn0, req[p].cpn)
            /\ orders' = [o \in OrderIds |->
                             IF orders[o].coupon.present
                             THEN [orders[o] EXCEPT !.coupon.freeShipping =
                                                       ~req[p].cpn.freeShipping]
                             ELSE orders[o]]
            /\ pc' = [pc EXCEPT ![p] = "done"]
       ELSE /\ pc' = [pc EXCEPT ![p] = "failed"]
            /\ UNCHANGED <<coupon, orders>>
    /\ req' = [req EXCEPT ![p] = Answered(req[p])]
    /\ UNCHANGED <<now, commits, evalVars, createVars, lifeVars>>

\* updateCoupon, line 239: await coupon.save(), with the pre-save hook
UpdateSave(p) ==
    /\ pc[p] = "update_save"
    /\ IF PreSaveOk(req[p].cpn, now) /\ SchemaOk(req[p].cpn)
       THEN /\ coupon' = SaveCouponFields(coupon, req[p].cpn0, req[p].cpn)
            /\ pc' = [pc EXCEPT ![p] = "done"]
            /\ req' = [req EXCEPT ![p] = Answered(req[p])]
       ELSE /\ pc' = [pc EXCEPT ![p] = "failed"]
            /\ req' = [req EXCEPT ![p] = Answered(req[p])]
            /\ UNCHANGED coupon
    /\ UNCHANGED <<now, orders, commits, evalVars, createVars, lifeVars>>

\* any awaited save() may reject (the store is unreachable, the write is
\* refused): control passes to the handler's catch, next(error)
SaveFails(p) ==
    /\ pc[p] \in {"apply_saveOrder", "apply_commit", "remove_save", "update_save"}
    /\ pc' = [pc EXCEPT ![p] = "failed"]
    /\ req' = [req EXCEPT ![p] = Answered(req[p])]
    /\ UNCHANGED <<now, coupon, orders, commits, evalVars, createVars, lifeVars>>

\* ------------------------------------------------- coupon-controller system

\* SAVE20: 20 percent, at most Rs 200, on orders of Rs 500 or more
\* FLAT50: Rs 50 off
CouponKinds ==
    { [discountType |-> "percentage", discountValue |-> 20,
       maxDiscountAmount |-> Rs(200), minOrderValue |-> Rs(500)],
      [discountType |-> "fixed", discountValue |-> Rs(50),
       maxDiscountAmount |-> 0, minOrderValue |-> 0] }

\* a coupon as Coupon.create stores it: schema defaults, empty ledger
NewCoupon(k, fs, limit, perUser) ==
    [discountType |-> k.discountType, discountValue |-> k.discountValue,
     maxDiscountAmount |-> k.maxDiscountAmount,
     minOrderValue |-> k.minOrderValue,
     maxUsageLimit |-> limit, maxUsagePerUser |-> perUser,
     validFrom |-> 0, validUntil |-> MaxDay + 2, isActive |-> TRUE,
     applicableUsers |-> {}, applicableProducts |-> {}, excludedProducts |-> {},
     applicableCategories |-> {},
     freeShipping |-> fs, usageCount |-> 0, userUsage |-> <<>>]

\* an order as createOrder stores it, lines 84-100
NewOrder(u, items, subtotal, shippingCharge) ==
    [user |-> u, items |-> items, subtotal |-> subtotal,
     shippingCharge |-> shippingCharge, discount |-> 0,
     totalAmount |-> subtotal + shippingCharge, coupon |-> NoCoupon]

InitOrders ==
    [o \in OrderIds |->
        IF o = 1 THEN NewOrder("u1", {"p1"}, Rs(1000), Rs(50))
        ELSE NewOrder("u2", {"p2"}, Rs(30), Rs(40))]

\* ------------------------------------------------- product and order models

NoSku == "none"      \* a line item without variantSku
Skus == {"v1"}       \* the variant SKUs of a product that has variants

\* a Product document, sold in variants or not, with `stock` units in all
NewProduct(hasVariants, stock) ==
    [hasVariants |-> hasVariants, stock |-> stock,
     variants |-> [k \in Skus |-> IF hasVariants THEN stock ELSE 0],
     totalSold |-> 0]

RECURSIVE SumOver(_, _)
SumOver(f, S) ==
    IF S = {} THEN 0
    ELSE LET x == CHOOSE y \in S : TRUE IN f[x] + SumOver(f, S \ {x})

\* productSchema.pre('save'), lines 264-273: a product with variants stores
\* the sum of its variants' stock as its own stock
PreSaveStock(product) ==
    IF product.hasVariants
    THEN [product EXCEPT !.stock = SumOver(product.variants, Skus)]
    ELSE product

increaseStockMutant(product, quantity, variantSku) ==
    [product EXCEPT !.stock = @ + 1]

\* productSchema.methods.increaseStock, lines 305-314, on the document read
increaseStock(product, quantity, variantSku) ==
    IF product.hasVariants /\ variantSku # NoSku
    THEN IF variantSku \in Skus
         THEN [product EXCEPT !.variants[variantSku] = @ + quantity]
         ELSE product
    ELSE [product EXCEPT !.stock = @ + quantity]

\* product.save(): the paths that differ from the document read are written
SaveProduct(stored, loaded, local) ==
    [stored EXCEPT
        !.stock = IF local.stock # loaded.stock THEN local.stock ELSE @,
        !.variants = [k \in Skus |->
                         IF local.variants[k] # loaded.variants[k]
                         THEN local.variants[k] ELSE @[k]]]

\* an Order document as Order.create stores it: the pre-save hook records the
\* first status in statusHistory
NewLifeOrder(u, items) ==
    [user |-> u, items |-> items,
     orderStatus |-> "pending", paymentStatus |-> "pending",
     isCancelled |-> FALSE, cancelledAt |-> NoDate, cancellationReason |-> "",
     deliveredAt |-> NoDate,
     isReturned |-> FALSE, returnRequestedAt |-> NoDate, returnReason |-> "",
     returnStatus |-> "null",
     statusHistory |-> <<"pending">>]

LifeProcs == 1..MaxLife

InitLifeIdle ==
    /\ clock = 1
    /\ lorder = NewLifeOrder("u1", <<>>)
    /\ lpc = [p \in LifeProcs |-> "done"]
    /\ lreq = [p \in LifeProcs |-> Idle]
    /\ shipments = 0

InitEvalIdle == evalIn = [used |-> FALSE] /\ evalOut = [used |-> FALSE]
InitCreateIdle ==
    /\ products = [x \in Products |-> NewProduct(FALSE, 0)]
    /\ placed = <<>>
    /\ cpc = [c \in 1..MaxCreate |-> "done"]
    /\ creq = [c \in 1..MaxCreate |-> Idle]

\* the coupon controller's requests start on a coupon just created and on
\* two orders just placed
InitCouponSystem(perUserCaps) ==
    /\ now = 1
    /\ \E k \in CouponKinds, fs \in BOOLEAN, limit \in {NoLimit, 2},
          perUser \in perUserCaps :
          coupon = NewCoupon(k, fs, limit, perUser)
    /\ orders = InitOrders
    /\ pc = [p \in Procs |-> "idle"]
    /\ req = [p \in Procs |-> Idle]
    /\ commits = [o \in OrderIds |-> 0]
    /\ InitEvalIdle
    /\ InitCreateIdle
    /\ InitLifeIdle

Init == InitCouponSystem({2})

Next ==
    \E p \in Procs :
        \/ \E u \in Users, o \in OrderIds : ApplyFindOrder(p, u, o)
        \/ ApplyFindCoupon(p)
        \/ ApplySaveOrder(p)
        \/ ApplyCommit(p)
        \/ \E u \in Users, o \in OrderIds : RemoveFindOrder(p, u, o)
        \/ RemoveSave(p)
        \/ \E patch \in Patches : UpdateFindCoupon(p, patch)
        \/ UpdateSave(p)
        \/ SaveFails(p)

Spec == Init /\ [][Next]_vars

\* the coupon controller with applyCoupon requests only
NextApply ==
    \E p \in Procs :
        \/ \E u \in Users, o \in OrderIds : ApplyFindOrder(p, u, o)
        \/ ApplyFindCoupon(p)
        \/ ApplySaveOrder(p)
        \/ ApplyCommit(p)
        \/ SaveFails(p)

SpecApply == InitCouponSystem({1, 2}) /\ [][NextApply]_vars

\* ------------------------------------------------------------ ledger views

RECURSIVE SumUsed(_, _)
\* sum of usedCount over the entries of `entries` that belong to a user of `us`
SumUsed(entries, us) ==
    IF entries = <<>> THEN 0
    ELSE (IF Head(entries).user \in us THEN Head(entries).usedCount ELSE 0)
         + SumUsed(Tail(entries), us)

RECURSIVE CountRecords(_, _)
\* number of history records of `entries` that reference an order of `os`
CountRecords(entries, os) ==
    IF entries = <<>> THEN 0
    ELSE Cardinality({i \in 1..Len(Head(entries).usageHistory) :
                         Head(entries).usageHistory[i].orderId \in os})
         + CountRecords(Tail(entries), os)


Quiescent == \A p \in Procs : pc[p] \in {"idle", "done", "rejected", "failed"}

\* ------------------------------------------------------------------ claims

\* C1: for every user, the usedCount the coupon's usage ledger holds for that
\* user never exceeds the coupon's per-user cap maxUsagePerUser, after any
\* number of sequential or overlapping applyCoupon requests.
C1_PerUserCap ==
    \A u \in Users : SumUsed(coupon.userUsage, {u}) <= coupon.maxUsagePerUser

\* C1 witness: after two commits a user's ledger entry has reached the cap,
\* and canUserUse now turns that user away
C1_Witness ==
    \E u \in Users :
        /\ SumUsed(coupon.userUsage, {u}) = coupon.maxUsagePerUser
        /\ SumOver(commits, OrderIds) >= 2
        /\ canUserUse(coupon, u, now).reason = "UserLimitReached"

\* C2: whenever the global cap maxUsageLimit is set, usageCount does not
\* exceed it, whatever applyCoupon requests and updateCoupon edits have run.
C2_GlobalCap ==
    coupon.maxUsageLimit # NoLimit => coupon.usageCount <= coupon.maxUsageLimit

\* C3: once no coupon-controller request is in flight, every order's stored
\* totalAmount equals max(0, subtotal - discount + shippingCharge) over the
\* order's own stored fields, the discount being that of its coupon snapshot.
C3_StoredTotal ==
    Quiescent =>
        \A o \in OrderIds :
            orders[o].totalAmount =
                Max(0, orders[o].subtotal - SnapshotDiscount(orders[o])
                       + orders[o].shippingCharge)

\* C6: for every order, the usage-ledger commit is performed at most once and
\* the ledger holds at most one history record referencing the order.
C6_AtMostOnceCommit ==
    \A o \in OrderIds :
        /\ commits[o] <= 1
        /\ CountRecords(coupon.userUsage, {o}) <= 1

\* C7: a stored order carries a coupon snapshot only if the usage ledger has a
\* commit for that order: the order is not saved before the ledger commit.
C7_CommitBeforeOrderSave ==
    \A o \in OrderIds : orders[o].coupon.present => commits[o] >= 1

\* C8: when the only request there is, an applyCoupon, ends in an error at
\* either save, the stored order has the coupon snapshot and totalAmount it
\* had when the request read it, and the coupon's usageCount and userUsage
\* are those the request read.
C8_ApplyAtomic ==
    [][\A p \in Procs :
          ( /\ pc[p] \in {"apply_saveOrder", "apply_commit"}
            /\ pc'[p] = "failed"
            /\ \A q \in Procs \ {p} : pc[q] = "idle" )
          => /\ orders'[req[p].order].coupon = req[p].ord0.coupon
             /\ orders'[req[p].order].totalAmount = req[p].ord0.totalAmount
             /\ coupon'.usageCount = req[p].cpn0.usageCount
             /\ coupon'.userUsage = req[p].cpn0.userUsage]_vars

\* C9: after k successful usage commits on a coupon created with an empty
\* ledger, usageCount is k, the usedCount of all user entries sums to k and
\* the ledger holds k history records.
C9_ExactlyOnceIncrements ==
    LET k == SumOver(commits, OrderIds)
    IN /\ coupon.usageCount = k
       /\ SumUsed(coupon.userUsage, Users) = k
       /\ CountRecords(coupon.userUsage, OrderIds) = k

\* ----------------------------------------------------- evaluator in isolation

\* rule fields of the coupons tried: both kinds, values at and around the
\* limits of the pre-save hook
EvalKinds ==
    [discountType : {"percentage", "fixed"},
     discountValue : {0, 1, 20, 100, 101, Rs(50)},
     maxDiscountAmount : {0 - Rs(1), 0, 1, Rs(200)},
     minOrderValue : {0, Rs(500)}]

\* the coupons among them that save() accepts: schema validators and hook
SavedCoupons ==
    {c \in {NewCoupon(k, FALSE, NoLimit, 1) : k \in EvalKinds} :
        PreSaveOk(c, 1) /\ SchemaOk(c)}

CartTotals == {Rs(200) * k : k \in 0..MaxCart} \cup {Rs(30)}

InitCouponIdle ==
    /\ now = 1
    /\ coupon = NewCoupon(CHOOSE k \in CouponKinds : k.discountType = "fixed",
                          FALSE, NoLimit, 1)
    /\ orders = InitOrders
    /\ pc = [p \in Procs |-> "done"]
    /\ req = [p \in Procs |-> Idle]
    /\ commits = [o \in OrderIds |-> 0]

InitDiscount ==
    /\ InitCouponIdle
    /\ InitCreateIdle
    /\ InitLifeIdle
    /\ \E c \in SavedCoupons, t \in CartTotals :
          evalIn = [used |-> TRUE, coupon |-> c, cartTotal |-> t, cartItems |-> {"p1"}]
    /\ evalOut = [used |-> FALSE]

\* one call of coupon.calculateDiscount(cartTotal, cartItems)
Evaluate ==
    /\ ~evalOut.used
    /\ evalOut' = [used |-> TRUE,
                   result |-> calculateDiscount(evalIn.coupon, evalIn.cartTotal,
                                                evalIn.cartItems)]
    /\ UNCHANGED <<now, couponVars, evalIn, createVars, lifeVars>>

NextDiscount == Evaluate

SpecDiscount == InitDiscount /\ [][NextDiscount]_vars

\* C4: for every coupon that passed save-time validation and every cart total
\* >= 0, a successful calculateDiscount returns a discountAmount that is at
\* most the cart total and, for a percentage coupon, at most maxDiscountAmount.
C4_DiscountBound ==
    (evalOut.used /\ evalOut.result.valid) =>
        /\ evalOut.result.discountAmount <= evalIn.cartTotal
        /\ (evalIn.coupon.discountType = "percentage") =>
              evalOut.result.discountAmount <= evalIn.coupon.maxDiscountAmount

\* C4 witness: a percentage whose uncapped amount exceeds the cap was
\* evaluated with success, and the cap was returned
C4_Witness ==
    /\ evalOut.used /\ evalOut.result.valid
    /\ evalIn.coupon.discountType = "percentage"
    /\ (evalIn.cartTotal * evalIn.coupon.discountValue) \div Percent
          > evalIn.coupon.maxDiscountAmount
    /\ evalIn.coupon.maxDiscountAmount > 0
    /\ evalOut.result.discountAmount = evalIn.coupon.maxDiscountAmount

\* ---------------------------------------------------------------- createOrder
\* Products here have no variants (hasVariants false), are active and approved.

Creators == 1..MaxCreate

\* the line items a createOrder request may carry: none, one or two lines, the
\* same product possibly twice
LineItems == [product : Products, quantity : 1..MaxQty]
ItemLists == {<<>>} \cup {<<a>> : a \in LineItems}
             \cup {<<a, b>> : a \in LineItems, b \in LineItems}

RECURSIVE Digits(_)
\* String(n): the decimal digits of n >= 0
Digits(n) == IF n < 10 THEN <<n>> ELSE Append(Digits(n \div 10), n % 10)

RECURSIVE PadStart(_, _, _)
\* s.padStart(len, ch)
PadStart(s, len, ch) == IF Len(s) >= len THEN s ELSE PadStart(<<ch>> \o s, len, ch)

\* orderSchema.pre('validate'), lines 222-234: prefix, the date's year, month
\* and day (fixed widths, kept as the day number) and the padded sequence
OrderId(day, count) ==
    [prefix |-> "ORD", date |-> day,
     sequence |-> PadStart(Digits(count + 1), 4, 0)]

\* countDocuments({ createdAt: { $gte: startOfDay } })
CountToday(day) == Cardinality({i \in 1..Len(placed) : placed[i].createdAt >= day})

\* the unique index of orderSchema.orderId: the insert of a second document
\* with the same orderId is refused (duplicate key)
UniqueIndexAllows(id) == \A i \in 1..Len(placed) : placed[i].orderId # id

\* productSchema.stock has the validator min: 0, run by save()
StockValid(n) == n >= 0

\* createOrder, lines 16-23
CreateStart(c, items) ==
    /\ cpc[c] = "idle"
    /\ \A d \in Creators : d < c => cpc[d] # "idle"
    /\ IF Len(items) = 0
       THEN /\ cpc' = [cpc EXCEPT ![c] = "rejected"]
            /\ UNCHANGED creq
       ELSE /\ cpc' = [cpc EXCEPT ![c] = "check"]
            /\ creq' = [creq EXCEPT ![c] = [items |-> items, i |-> 1,
                                            orderId |-> OrderId(0, 0), stock |-> 0]]
    /\ UNCHANGED <<now, couponVars, evalVars, lifeVars, products, placed>>

\* createOrder, lines 30-80: one turn of the validation loop, Product.findById
\* and the stock test on the line item
CreateCheck(c) ==
    /\ cpc[c] = "check"
    /\ LET r == creq[c]
           item == r.items[r.i]
       IN IF products[item.product].stock < item.quantity
          THEN /\ cpc' = [cpc EXCEPT ![c] = "rejected"]
               /\ creq' = [creq EXCEPT ![c] = Idle]
          ELSE /\ cpc' = [cpc EXCEPT ![c] = IF r.i = Len(r.items) THEN "count"
                                            ELSE "check"]
               /\ creq' = [creq EXCEPT ![c].i = IF r.i = Len(r.items) THEN 1
                                                ELSE r.i + 1]
    /\ UNCHANGED <<now, couponVars, evalVars, lifeVars, products, placed>>

\* Order.create, the pre('validate') hook: countDocuments and the identifier
CreateCount(c) ==
    /\ cpc[c] = "count"
    /\ creq' = [creq EXCEPT ![c].orderId = OrderId(now, CountToday(now))]
    /\ cpc' = [cpc EXCEPT ![c] = "insert"]
    /\ UNCHANGED <<now, couponVars, evalVars, lifeVars, products, placed>>

\* Order.create, lines 87-100: the insert
CreateInsert(c) ==
    /\ cpc[c] = "insert"
    /\ IF UniqueIndexAllows(creq[c].orderId)
       THEN /\ placed' = Append(placed, [orderId |-> creq[c].orderId,
                                         createdAt |-> now,
                                         items |-> creq[c].items, by |-> c,
                                         isCancelled |-> FALSE])
            /\ cpc' = [cpc EXCEPT ![c] = "dec_find"]
            /\ UNCHANGED creq
       ELSE /\ cpc' = [cpc EXCEPT ![c] = "failed_duplicate"]
            /\ creq' = [creq EXCEPT ![c] = Idle]
            /\ UNCHANGED placed
    /\ UNCHANGED <<now, couponVars, evalVars, lifeVars, products>>

\* createOrder, line 104: Product.findById in the stock loop
CreateDecFind(c) ==
    /\ cpc[c] = "dec_find"
    /\ creq' = [creq EXCEPT ![c].stock =
                   products[creq[c].items[creq[c].i].product].stock]
    /\ cpc' = [cpc EXCEPT ![c] = "dec_save"]
    /\ UNCHANGED <<now, couponVars, evalVars, lifeVars, products, placed>>

\* productSchema.methods.decreaseStock on a product without variants:
\* this.stock -= quantity on the document read
decreaseStock(stock, quantity) == stock - quantity

\* createOrder, line 105: await product.decreaseStock(...): the new stock is
\* validated and written, or save() throws and the handler ends in its catch
CreateDecSave(c) ==
    /\ cpc[c] = "dec_save"
    /\ LET r == creq[c]
           item == r.items[r.i]
           n == decreaseStock(r.stock, item.quantity)
       IN IF StockValid(n)
          THEN /\ products' = [products EXCEPT ![item.product].stock = n]
               /\ IF r.i = Len(r.items)
                  THEN /\ cpc' = [cpc EXCEPT ![c] = "done"]
                       /\ creq' = [creq EXCEPT ![c] = Idle]
                  ELSE /\ cpc' = [cpc EXCEPT ![c] = "dec_find"]
                       /\ creq' = [creq EXCEPT ![c].i = r.i + 1]
          ELSE /\ cpc' = [cpc EXCEPT ![c] = "failed_stock"]
               /\ creq' = [creq EXCEPT ![c] = Idle]
               /\ UNCHANGED products
    /\ UNCHANGED <<now, couponVars, evalVars, lifeVars, placed>>

\* midnight passes
Tick ==
    /\ now < 1 + MaxDay
    /\ now' = now + 1
    /\ UNCHANGED <<couponVars, evalVars, createVars, lifeVars>>

InitCreate ==
    /\ InitCouponIdle
    /\ InitEvalIdle
    /\ InitLifeIdle
    /\ products = [x \in Products |-> NewProduct(FALSE, MaxStock)]
    /\ placed = <<>>
    /\ cpc = [c \in Creators |-> "idle"]
    /\ creq = [c \in Creators |-> Idle]

NextCreate ==
    \/ \E c \in Creators :
          \/ \E items \in ItemLists : CreateStart(c, items)
          \/ CreateCheck(c)
          \/ CreateCount(c)
          \/ CreateInsert(c)
          \/ CreateDecFind(c)
          \/ CreateDecSave(c)
    \/ Tick

SpecCreate == InitCreate /\ [][NextCreate]_vars

RECURSIVE LineQty(_, _)
\* quantity of product x over the line items
LineQty(items, x) ==
    IF items = <<>> THEN 0
    ELSE (IF Head(items).product = x THEN Head(items).quantity ELSE 0)
         + LineQty(Tail(items), x)

RECURSIVE HeldQty(_, _)
\* quantity of product x held by the stored, non-cancelled orders
HeldQty(os, x) ==
    IF os = <<>> THEN 0
    ELSE (IF Head(os).isCancelled THEN 0 ELSE LineQty(Head(os).items, x))
         + HeldQty(Tail(os), x)

\* C5: for every product, the stored non-cancelled orders never hold more
\* than the stock that was available, the stock is never negative, and a
\* createOrder that the remaining stock cannot cover leaves no order stored.
C5_NoOverselling ==
    /\ \A x \in Products :
          /\ HeldQty(placed, x) <= MaxStock
          /\ products[x].stock >= 0
    /\ \A c \in Creators :
          cpc[c] = "failed_stock" => \A i \in 1..Len(placed) : placed[i].by # c

\* C10: no two stored orders have the same orderId, and every creation that
\* passed its checks has its order stored under an identifier.
C10_OrderIdUnique ==
    /\ \A i, j \in 1..Len(placed) : i # j => placed[i].orderId # placed[j].orderId
    /\ \A c \in Creators : cpc[c] # "failed_duplicate"

\* --------------------------------------------------------- order lifecycle
\* One order, placed by u1, and the requests that change it: updateOrderStatus,
\* verifyPayment, cancelOrder, requestReturn, the shipping controller and the
\* Shiprocket webhook.

Statuses == {"pending", "confirmed", "processing", "shipped", "delivered",
             "cancelled"}

\* updateOrderStatus, lines 260-261
validStatuses == {"confirmed", "processing", "shipped", "delivered"}

\* the scalar paths of the Order document that the lifecycle requests assign
OrderPaths ==
    {"orderStatus", "paymentStatus", "isCancelled", "cancelledAt",
     "cancellationReason", "deliveredAt", "isReturned", "returnRequestedAt",
     "returnReason", "returnStatus"}

\* orderSchema.pre('save'), lines 240-248: isModified('orderStatus') compares
\* the in-memory status with the one read
StatusModified(loaded, local) == local.orderStatus # loaded.orderStatus

\* order.save(): the paths that differ from the document read are written, the
\* entries pushed onto statusHistory by the method and then by the pre-save
\* hook are appended to the stored array
SaveLifeOrder(stored, loaded, local, pushed) ==
    [f \in DOMAIN stored |->
        IF f \in OrderPaths
        THEN IF local[f] # loaded[f] THEN local[f] ELSE stored[f]
        ELSE IF f = "statusHistory"
             THEN stored[f] \o pushed
                  \o (IF StatusModified(loaded, local)
                      THEN <<local.orderStatus>> ELSE <<>>)
             ELSE stored[f]]

\* orderSchema.methods.updateStatus, lines 281-284 and 293-297, on the
\* in-memory order (the sold counters and the save are steps of the request)
updateStatus(o, newStatus, t) ==
    [o EXCEPT !.orderStatus = newStatus,
              !.deliveredAt = IF newStatus = "delivered" THEN t ELSE @]

cancelOrderMutant(o, reason, t) ==
    [threw |-> FALSE,
     order |-> [o EXCEPT !.orderStatus = "cancelled", !.isCancelled = TRUE,
                         !.cancelledAt = t, !.cancellationReason = reason]]

\* orderSchema.methods.cancelOrder, lines 256-262, on the in-memory order
cancelOrder(o, reason, t) ==
    IF o.orderStatus = "delivered"
    THEN [threw |-> TRUE, order |-> o]
    ELSE [threw |-> FALSE,
          order |-> [o EXCEPT !.orderStatus = "cancelled",
                              !.isCancelled = TRUE,
                              !.cancelledAt = t,
                              !.cancellationReason = reason]]

\* Math.floor((Date.now() - deliveredAt) / (1000 * 60 * 60 * 24))
daysSinceDelivery(o, t) == (t - o.deliveredAt) \div HalfDaysPerDay

\* orderSchema.methods.requestReturn, lines 307-322, on the in-memory order
requestReturn(o, reason, t) ==
    IF o.orderStatus # "delivered" \/ daysSinceDelivery(o, t) > ReturnDays
    THEN [threw |-> TRUE, order |-> o]
    ELSE [threw |-> FALSE,
          order |-> [o EXCEPT !.isReturned = TRUE,
                              !.returnRequestedAt = t,
                              !.returnReason = reason,
                              !.returnStatus = "requested"]]

\* the answers: 2xx (done), 400 or 404 (rejected), 403 (forbidden), and an
\* error passed to next(error) (failed)
InFlight(p) ==
    lpc[p] \notin {"idle", "done", "rejected", "forbidden", "failed"}

\* lifecycle requests are numbered in their order of arrival; the server has
\* at most k of them in flight
LifeArrives(p, k) ==
    /\ lpc[p] = "idle"
    /\ \A q \in LifeProcs : q < p => lpc[q] # "idle"
    /\ Cardinality({q \in LifeProcs : InFlight(q)}) < k

\* a request that has answered keeps its kind only
LifeAnswer(p, kind, outcome) ==
    /\ lpc' = [lpc EXCEPT ![p] = outcome]
    /\ lreq' = [lreq EXCEPT ![p] = [kind |-> kind]]

\* updateOrderStatus, lines 257-281: the status test, Order.findById, and
\* updateStatus up to its first await
UpdLoad(p, k, status) ==
    /\ LifeArrives(p, k)
    /\ IF status \notin validStatuses
       THEN LifeAnswer(p, "update", "rejected")
       ELSE /\ lreq' = [lreq EXCEPT ![p] =
                           [kind |-> "update", status |-> status,
                            ord0 |-> lorder,
                            ord |-> updateStatus(lorder, status, clock),
                            i |-> 1]]
            /\ lpc' = [lpc EXCEPT ![p] =
                          IF status = "delivered" /\ Len(lorder.items) > 0
                          THEN "upd_inc" ELSE "upd_save"]
    /\ UNCHANGED <<now, couponVars, evalVars, createVars, clock, lorder,
                   shipments>>

\* updateStatus, lines 287-291: Product.findByIdAndUpdate with $inc for the
\* next line item
UpdInc(p) ==
    /\ lpc[p] = "upd_inc"
    /\ LET r == lreq[p]
           item == r.ord.items[r.i]
       IN /\ products' = [products EXCEPT
                              ![item.product].totalSold = @ + item.quantity]
          /\ lreq' = [lreq EXCEPT ![p].i = @ + 1]
          /\ lpc' = [lpc EXCEPT ![p] =
                        IF r.i = Len(r.ord.items) THEN "upd_save" ELSE "upd_inc"]
    /\ UNCHANGED <<now, couponVars, evalVars, placed, cpc, creq, clock, lorder,
                   shipments>>

\* updateStatus, lines 287-291: the update of a sold counter rejects; the
\* error leaves updateStatus before this.save() and reaches next(error)
UpdIncFails(p) ==
    /\ lpc[p] = "upd_inc"
    /\ LifeAnswer(p, "update", "failed")
    /\ UNCHANGED <<now, couponVars, evalVars, createVars, clock, lorder,
                   shipments>>

\* updateStatus, lines 293-299: statusHistory.push and this.save()
UpdSave(p) ==
    /\ lpc[p] = "upd_save"
    /\ lorder' = SaveLifeOrder(lorder, lreq[p].ord0, lreq[p].ord,
                               <<lreq[p].status>>)
    /\ LifeAnswer(p, "update", "done")
    /\ UNCHANGED <<now, couponVars, evalVars, createVars, clock, shipments>>

\* verifyPayment, lines 77-104: the signature test, Order.findById and the
\* assignments to the in-memory order
VerifyLoad(p, k, signatureValid) ==
    /\ LifeArrives(p, k)
    /\ IF ~signatureValid
       THEN LifeAnswer(p, "verify", "rejected")
       ELSE /\ lreq' = [lreq EXCEPT ![p] =
                           [kind |-> "verify", ord0 |-> lorder,
                            ord |-> [lorder EXCEPT
                                        !.paymentStatus = "completed",
                                        !.orderStatus = "confirmed"]]]
            /\ lpc' = [lpc EXCEPT ![p] = "verify_save"]
    /\ UNCHANGED <<now, couponVars, evalVars, createVars, clock, lorder,
                   shipments>>

\* verifyPayment, line 106: await order.save()
VerifySave(p) ==
    /\ lpc[p] = "verify_save"
    /\ lorder' = SaveLifeOrder(lorder, lreq[p].ord0, lreq[p].ord, <<>>)
    /\ LifeAnswer(p, "verify", "done")
    /\ UNCHANGED <<now, couponVars, evalVars, createVars, clock, shipments>>

\* the cancellation and return reasons of the request bodies
Reasons == {"changed my mind"}

\* cancelOrder (controller), lines 208-236: Order.findById, the ownership and
\* status tests, and the model's cancelOrder up to its first await
CancelLoad(p, k, u, reason) ==
    /\ LifeArrives(p, k)
    /\ LET c == cancelOrder(lorder, reason, clock)
       IN IF lorder.user # u
          THEN LifeAnswer(p, "cancel", "forbidden")
          ELSE IF lorder.orderStatus \in {"delivered", "cancelled"}
          THEN LifeAnswer(p, "cancel", "rejected")
          ELSE IF c.threw
          THEN LifeAnswer(p, "cancel", "failed")
          ELSE /\ lreq' = [lreq EXCEPT ![p] =
                              [kind |-> "cancel", ord0 |-> lorder,
                               ord |-> c.order, i |-> 1,
                               product |-> NewProduct(FALSE, 0)]]
               /\ lpc' = [lpc EXCEPT ![p] =
                             IF Len(lorder.items) > 0
                             THEN "cancel_find" ELSE "cancel_save"]
    /\ UNCHANGED <<now, couponVars, evalVars, createVars, clock, lorder,
                   shipments>>

\* orderSchema.methods.cancelOrder, line 267: Product.findById of the next
\* line item
CancelFindProduct(p) ==
    /\ lpc[p] = "cancel_find"
    /\ lreq' = [lreq EXCEPT ![p].product =
                   products[lreq[p].ord.items[lreq[p].i].product]]
    /\ lpc' = [lpc EXCEPT ![p] = "cancel_inc"]
    /\ UNCHANGED <<now, couponVars, evalVars, createVars, clock, lorder,
                   shipments>>

\* orderSchema.methods.cancelOrder, line 269: await product.increaseStock(...),
\* whose save() runs the pre-save hook on the product read
CancelIncSave(p) ==
    /\ lpc[p] = "cancel_inc"
    /\ LET r == lreq[p]
           item == r.ord.items[r.i]
           local == PreSaveStock(increaseStock(r.product, item.quantity,
                                               item.variantSku))
       IN /\ products' = [products EXCEPT ![item.product] =
                              SaveProduct(@, r.product, local)]
          /\ lreq' = [lreq EXCEPT ![p].i = @ + 1]
          /\ lpc' = [lpc EXCEPT ![p] =
                        IF r.i = Len(r.ord.items)
                        THEN "cancel_save" ELSE "cancel_find"]
    /\ UNCHANGED <<now, couponVars, evalVars, placed, cpc, creq, clock, lorder,
                   shipments>>

\* orderSchema.methods.cancelOrder, line 273: await this.save()
CancelSave(p) ==
    /\ lpc[p] = "cancel_save"
    /\ lorder' = SaveLifeOrder(lorder, lreq[p].ord0, lreq[p].ord, <<>>)
    /\ LifeAnswer(p, "cancel", "done")
    /\ UNCHANGED <<now, couponVars, evalVars, createVars, clock, shipments>>

\* requestReturn (controller), lines 302-322: Order.findById, the ownership
\* test, and the model's requestReturn up to this.save()
ReturnLoad(p, k, u, reason) ==
    /\ LifeArrives(p, k)
    /\ LET c == requestReturn(lorder, reason, clock)
       IN IF lorder.user # u
          THEN LifeAnswer(p, "return", "forbidden")
          ELSE IF c.threw
          THEN LifeAnswer(p, "return", "failed")
          ELSE /\ lreq' = [lreq EXCEPT ![p] =
                              [kind |-> "return", ord0 |-> lorder,
                               ord |-> c.order]]
               /\ lpc' = [lpc EXCEPT ![p] = "return_save"]
    /\ UNCHANGED <<now, couponVars, evalVars, createVars, clock, lorder,
                   shipments>>

\* orderSchema.methods.requestReturn, line 324: await this.save()
ReturnSave(p) ==
    /\ lpc[p] = "return_save"
    /\ lorder' = SaveLifeOrder(lorder, lreq[p].ord0, lreq[p].ord, <<>>)
    /\ LifeAnswer(p, "return", "done")
    /\ UNCHANGED <<now, couponVars, evalVars, createVars, clock, shipments>>

\* createReturnShipment, lines 560-585: Order.findById and the ownership and
\* status tests
RetShipLoad(p, k, u) ==
    /\ LifeArrives(p, k)
    /\ IF lorder.user # u
       THEN LifeAnswer(p, "retship", "forbidden")
       ELSE IF lorder.orderStatus # "delivered"
       THEN LifeAnswer(p, "retship", "rejected")
       ELSE /\ lreq' = [lreq EXCEPT ![p] =
                           [kind |-> "retship", ord0 |-> lorder,
                            ord |-> lorder]]
            /\ lpc' = [lpc EXCEPT ![p] = "retship_create"]
    /\ UNCHANGED <<now, couponVars, evalVars, createVars, clock, lorder,
                   shipments>>

\* createReturnShipment, lines 636-668: shiprocket.createReturnOrder, which
\* answers or rejects, Shipment.create, and the assignments to the in-memory
\* order
RetShipCreate(p, answered) ==
    /\ lpc[p] = "retship_create"
    /\ IF answered
       THEN /\ shipments' = shipments + 1
            /\ lreq' = [lreq EXCEPT ![p].ord =
                           [@ EXCEPT !.isReturned = TRUE,
                                     !.returnRequestedAt = clock,
                                     !.returnStatus = "requested"]]
            /\ lpc' = [lpc EXCEPT ![p] = "retship_save"]
       ELSE /\ LifeAnswer(p, "retship", "failed")
            /\ UNCHANGED shipments
    /\ UNCHANGED <<now, couponVars, evalVars, createVars, clock, lorder>>

\* createReturnShipment, line 669: await order.save()
RetShipSave(p) ==
    /\ lpc[p] = "retship_save"
    /\ lorder' = SaveLifeOrder(lorder, lreq[p].ord0, lreq[p].ord, <<>>)
    /\ LifeAnswer(p, "retship", "done")
    /\ UNCHANGED <<now, couponVars, evalVars, createVars, clock, shipments>>

\* createShipment, lines 146-176: Order.findById, the test for an existing
\* shipment, and the read of process.enc.DEFAULT_PICKUP_ADDRESS, which throws
\* a TypeError (process.enc is undefined) before anything is written
createShipment(p, k) ==
    /\ LifeArrives(p, k)
    /\ LifeAnswer(p, "shipment",
                  IF shipments > 0 THEN "rejected" ELSE "failed")
    /\ UNCHANGED <<now, couponVars, evalVars, createVars, clock, lorder,
                   shipments>>

\* cancelShipment, lines 514-535: Shipment.findById, shiprocket.cancelShipment,
\* and the call of Shipment.cancelShipment, which the model (the schema
\* defines the instance method only) does not have: a TypeError before the
\* order is touched
cancelShipment(p, k) ==
    /\ LifeArrives(p, k)
    /\ LifeAnswer(p, "cancelShipment",
                  IF shipments = 0 THEN "rejected" ELSE "failed")
    /\ UNCHANGED <<now, couponVars, evalVars, createVars, clock, lorder,
                   shipments>>

\* the events of the Shiprocket webhook that touch the order
WebhookEvents ==
    {"shipment_picked", "shipment_delivered", "shipment_cancelled",
     "shipment_returned"}

\* handleShiprocketWebhook, lines 10-78: the signature test reads
\* process.enc.SHIPROCKET_WEBHOOK_SECRET, which throws a TypeError; the catch
\* block answers 200 and no event handler runs
handleShiprocketWebhook(p, k, event) ==
    /\ LifeArrives(p, k)
    /\ event \in WebhookEvents
    /\ LifeAnswer(p, "webhook", "done")
    /\ UNCHANGED <<now, couponVars, evalVars, createVars, clock, lorder,
                   shipments>>

\* time passes, half a day at a time; a request takes far less.  The code
\* reads the clock only against deliveredAt (requestReturn), so the clock is
\* counted from the first delivery on.
Advance ==
    /\ clock < MaxClock
    /\ lorder.deliveredAt # NoDate
    /\ \A p \in LifeProcs : ~InFlight(p)
    /\ clock' = clock + 1
    /\ UNCHANGED <<now, couponVars, evalVars, createVars, lorder, lpc, lreq,
                   shipments>>

\* the line items of the order: two products, the same product twice, and a
\* product sold in variants ordered without a variant SKU
LifeItemLists ==
    { << [product |-> "p1", variantSku |-> NoSku, quantity |-> MaxQty],
         [product |-> "p2", variantSku |-> "v1", quantity |-> 1] >>,
      << [product |-> "p1", variantSku |-> NoSku, quantity |-> 1],
         [product |-> "p1", variantSku |-> NoSku, quantity |-> MaxQty] >>,
      << [product |-> "p2", variantSku |-> NoSku, quantity |-> 1] >> }

\* the lifecycle requests start on an order u1 has just placed
InitLife ==
    /\ InitCouponIdle
    /\ InitEvalIdle
    /\ products = [x \in Products |-> NewProduct(x = "p2", MaxStock)]
    /\ placed = <<>>
    /\ cpc = [c \in 1..MaxCreate |-> "done"]
    /\ creq = [c \in 1..MaxCreate |-> Idle]
    /\ clock = 1
    /\ \E items \in LifeItemLists : lorder = NewLifeOrder("u1", items)
    /\ lpc = [p \in LifeProcs |-> "idle"]
    /\ lreq = [p \in LifeProcs |-> Idle]
    /\ shipments = 0

LifeStep(p, k) ==
    \/ \E status \in validStatuses \cup {"cancelled"} : UpdLoad(p, k, status)
    \/ UpdInc(p)
    \/ UpdIncFails(p)
    \/ UpdSave(p)
    \/ \E signatureValid \in BOOLEAN : VerifyLoad(p, k, signatureValid)
    \/ VerifySave(p)
    \/ \E u \in Users, reason \in Reasons : CancelLoad(p, k, u, reason)
    \/ CancelFindProduct(p)
    \/ CancelIncSave(p)
    \/ CancelSave(p)
    \/ \E u \in Users, reason \in Reasons : ReturnLoad(p, k, u, reason)
    \/ ReturnSave(p)
    \/ \E u \in Users : RetShipLoad(p, k, u)
    \/ \E answered \in BOOLEAN : RetShipCreate(p, answered)
    \/ RetShipSave(p)
    \/ createShipment(p, k)
    \/ cancelShipment(p, k)
    \/ \E event \in WebhookEvents : handleShiprocketWebhook(p, k, event)

\* requests that overlap, MaxOverlap of them at a time
NextLife == Advance \/ \E p \in LifeProcs : LifeStep(p, MaxOverlap)

SpecLife == InitLife /\ [][NextLife]_vars

\* requests served one after the other
NextLifeSerial == Advance \/ \E p \in LifeProcs : LifeStep(p, 1)

SpecLifeSerial == InitLife /\ [][NextLifeSerial]_vars

\* ------------------------------------------------------- lifecycle claims

\* position of a status on the chain pending -> ... -> delivered
StatusRank(st) ==
    CASE st = "pending" -> 0
      [] st = "confirmed" -> 1
      [] st = "processing" -> 2
      [] st = "shipped" -> 3
      [] st = "delivered" -> 4
      [] OTHER -> 5

LegalMove(a, b) ==
    \/ a = b
    \/ /\ a \notin {"delivered", "cancelled"}
       /\ \/ b = "cancelled"
          \/ StatusRank(b) <= 4 /\ StatusRank(a) <= StatusRank(b)

\* C11: every change of the stored orderStatus is a legal move: not backwards
\* along pending -> confirmed -> processing -> shipped -> delivered, to
\* cancelled only from a status other than delivered, and no change at all
\* once the status is delivered or cancelled.
C11_LegalTransitions ==
    [][LegalMove(lorder.orderStatus, lorder'.orderStatus)]_vars

\* C12: a cancel request that finds the order delivered is answered with an
\* error and leaves the stored order (orderStatus, isCancelled, cancelledAt,
\* cancellationReason) and every product's stock as they were; the model's
\* cancelOrder throws on a delivered order and changes nothing.
C12_CancelDeliveredRejected ==
    [][\A p \in LifeProcs, k \in {1, MaxOverlap}, u \in Users, r \in Reasons :
          /\ (lorder.orderStatus = "delivered" /\ CancelLoad(p, k, u, r)) =>
                /\ lpc'[p] \in {"rejected", "forbidden", "failed"}
                /\ lorder' = lorder
                /\ products' = products
          /\ lorder.orderStatus = "delivered" =>
                /\ cancelOrder(lorder, r, clock).threw
                /\ cancelOrder(lorder, r, clock).order = lorder]_vars

\* C12 witness: the owner's cancel request was answered 400 on an order that
\* is delivered and was never cancelled
C12_Witness ==
    /\ lorder.orderStatus = "delivered"
    /\ ~lorder.isCancelled
    /\ \A i \in 1..Len(lorder.statusHistory) :
          lorder.statusHistory[i] # "cancelled"
    /\ \E p \in LifeProcs : lreq[p].kind = "cancel" /\ lpc[p] = "rejected"

LifeQuiescent == \A p \in LifeProcs : ~InFlight(p)

\* cancel requests that ran to the end
CancelsDone ==
    Cardinality({p \in LifeProcs : lreq[p].kind = "cancel" /\ lpc[p] = "done"})

RECURSIVE ItemQty(_, _, _)
\* total quantity of the line items of product x whose variantSku is in skus
ItemQty(items, x, skus) ==
    IF items = <<>> THEN 0
    ELSE (IF Head(items).product = x /\ Head(items).variantSku \in skus
          THEN Head(items).quantity ELSE 0)
         + ItemQty(Tail(items), x, skus)

\* the step that ends a cancel request stores the order as cancelled, with
\* the flag, the timestamp and the reason
CancelStored ==
    \A p \in LifeProcs :
        (lpc[p] = "cancel_save" /\ lpc'[p] = "done") =>
            /\ lorder'.orderStatus = "cancelled"
            /\ lorder'.isCancelled
            /\ lorder'.cancelledAt # NoDate
            /\ lorder'.cancellationReason \in Reasons

\* the quantities of all the order's line items
AllItems(x, skus) == ItemQty(lorder.items, x, skus)

\* the quantities of the line items that name the stock they were taken from:
\* on a product sold in variants, those with a variant SKU
NamedItems(x, skus) ==
    ItemQty(lorder.items, x,
            IF products[x].hasVariants THEN skus \ {NoSku} ELSE skus)

\* every product's stock, and every variant's, has grown by the quantities of
\* its line items (all of them, or the named ones), once per cancel request
\* that ran to the end
StockGrownBy(named) ==
    LET restored(x, skus) == IF named THEN NamedItems(x, skus)
                             ELSE AllItems(x, skus)
    IN \A x \in Products :
        /\ products[x].stock =
              MaxStock + CancelsDone * restored(x, Skus \cup {NoSku})
        /\ products[x].hasVariants =>
              \A k \in Skus :
                  products[x].variants[k] =
                      MaxStock + CancelsDone * restored(x, {k})

ReturnWindow == ReturnDays * HalfDaysPerDay

\* the step enters the return flow: it stores isReturned with returnStatus
\* 'requested', newly or anew
EntersReturnFlow ==
    /\ lorder'.isReturned /\ lorder'.returnStatus = "requested"
    /\ \/ ~lorder.isReturned
       \/ lorder.returnStatus # "requested"
       \/ lorder'.returnRequestedAt # lorder.returnRequestedAt

\* C14: with requests served one after the other, the return flow is entered
\* (by requestReturn or createReturnShipment) only on an order whose status is
\* delivered and whose delivery is at most the 7-day return window back; any
\* other request leaves isReturned and returnStatus as they were.
C14_ReturnEntry ==
    [][EntersReturnFlow =>
          /\ lorder.orderStatus = "delivered"
          /\ clock - lorder.deliveredAt <= ReturnWindow]_vars

\* the step ends a removeCoupon request that ran on its own: nothing else is
\* in flight and the order was not written since the request read it
RemovesAlone(p) ==
    /\ pc[p] = "remove_save" /\ pc'[p] = "done"
    /\ \A q \in Procs \ {p} : pc[q] \in {"idle", "done", "rejected", "failed"}
    /\ orders[req[p].order] = req[p].ord0

\* C15: a removeCoupon that follows an applyCoupon on the same order (free
\* shipping or not) leaves the order without a coupon snapshot and with the
\* totalAmount it had before the coupon was applied, subtotal + shippingCharge.
C15_ApplyRemoveRoundTrip ==
    [][\A p \in Procs :
          (RemovesAlone(p) /\ orders[req[p].order].coupon.present) =>
             LET o == orders'[req[p].order]
             IN /\ ~o.coupon.present
                /\ o.totalAmount = o.subtotal + o.shippingCharge
                /\ o.totalAmount = InitOrders[req[p].order].totalAmount]_vars

\* C15 witness: a free-shipping coupon was applied to order 1 and committed,
\* then removed, and the order is back at its first total
C15_Witness ==
    /\ coupon.freeShipping
    /\ commits[1] = 1
    /\ orders[1].coupon = NullCoupon
    /\ orders[1].totalAmount = InitOrders[1].totalAmount
    /\ Quiescent

\* C16: no step of a removeCoupon request (reading the order, saving it,
\* failing) changes the coupon: usageCount and
\* every userUsage entry (usedCount, lastUsedAt, usageHistory) stay as they
\* are, so the use that was committed when the coupon was applied stays
\* consumed.
C16_RemoveKeepsLedger ==
    [][\A p \in Procs :
          (pc'[p] # pc[p] /\ "remove_save" \in {pc[p], pc'[p]}) =>
             /\ coupon' = coupon
             /\ commits' = commits]_vars

\* C16 witness: the coupon was applied to order 1, committed and removed
\* again; the order has no snapshot and the ledger still counts the use
C16_Witness ==
    /\ orders[1].coupon = NullCoupon
    /\ commits[1] >= 1
    /\ coupon.usageCount >= 1
    /\ Len(coupon.userUsage) >= 1
    /\ \E p \in Procs : pc[p] = "done"

\* ------------------------------------------- evaluator: items and rounding

Categories == {"c1", "c2"}

\* the category of each product (productSchema.category)
CategoryOf(x) == IF x = "p1" THEN "c1" ELSE "c2"

\* the coupons the evaluator is tried on: SAVE20 and FLAT50 with their
\* product and category lists
ListedCoupons ==
    {[NewCoupon(k, FALSE, NoLimit, 1) EXCEPT
         !.applicableProducts = ap, !.excludedProducts = ep,
         !.applicableCategories = ac] :
       k \in CouponKinds, ap \in {{}, {"p1"}, {"p2"}}, ep \in {{}, {"p1"}},
       ac \in {{}, {"c2"}}}

\* cart totals: below SAVE20's minimum, whole rupees, and Rs 500.01
ListedTotals == {Rs(30), Rs(1000), Paisa(50001)}

InitEvaluate ==
    /\ InitCouponIdle
    /\ InitCreateIdle
    /\ InitLifeIdle
    /\ \E c \in ListedCoupons, t \in ListedTotals,
          items \in {{"p1"}, {"p1", "p2"}} :
          evalIn = [used |-> TRUE, coupon |-> c, cartTotal |-> t,
                    cartItems |-> items]
    /\ evalOut = [used |-> FALSE]

NextEvaluate == Evaluate

SpecEvaluate == InitEvaluate /\ [][NextEvaluate]_vars

\* C17: on a cart that reaches the minimum order value, the evaluation fails
\* when the coupon's product allow-list or category allow-list is non-empty
\* and no cart item matches it (reason: no applicable items), and fails when
\* a cart item's product is on the exclude-list (reason: excluded item, unless
\* the allow-list already failed).
C17_ItemEligibility ==
    LET c == evalIn.coupon
        items == evalIn.cartItems
        noProduct == c.applicableProducts # {} /\ items \cap c.applicableProducts = {}
        noCategory == /\ c.applicableCategories # {}
                      /\ {CategoryOf(x) : x \in items} \cap c.applicableCategories = {}
        excluded == items \cap c.excludedProducts # {}
    IN (evalOut.used /\ evalIn.cartTotal >= c.minOrderValue) =>
          /\ (noProduct \/ noCategory) =>
                /\ ~evalOut.result.valid
                /\ evalOut.result.reason = "NoApplicableItems"
          /\ excluded =>
                /\ ~evalOut.result.valid
                /\ evalOut.result.reason \in
                      {"NoApplicableItems", "ExcludedItemPresent"}

\* the amount a, rounded half up to a whole number of paise
RoundHalfUp(a) == ((a + Paisa(1) \div 2) \div Paisa(1)) * Paisa(1)

\* C19: on an eligible cart a percentage coupon yields
\* min(cartTotal * value / 100, maxDiscountAmount) and a fixed coupon
\* min(value, cartTotal), rounded half up to a whole number of the smallest
\* currency unit; a cart below minOrderValue fails.
C19_DiscountFormula ==
    LET c == evalIn.coupon
        t == evalIn.cartTotal
        pct == (t * c.discountValue) \div Percent
        exact == IF c.discountType = "percentage"
                 THEN (IF pct < c.maxDiscountAmount THEN pct
                       ELSE c.maxDiscountAmount)
                 ELSE (IF c.discountValue < t THEN c.discountValue ELSE t)
    IN evalOut.used =>
          /\ t < c.minOrderValue => ~evalOut.result.valid
          /\ evalOut.result.valid =>
                /\ evalOut.result.discountAmount = RoundHalfUp(exact)
                /\ evalOut.result.discountAmount % Paisa(1) = 0

\* ------------------------------------------------- the validity and user gate

\* ledgers the gate is tried on: none, the user's entry at 0 and at 1 use,
\* and the user's entry behind another user's
GateLedgers(u) ==
    LET entry(w, n) == [user |-> w, usedCount |-> n, lastUsedAt |-> NoDate,
                        usageHistory |-> <<>>]
        other == CHOOSE w \in Users : w # u
    IN {<<>>, <<entry(u, 0)>>, <<entry(u, 1)>>,
        <<entry(other, 1), entry(u, 0)>>, <<entry(other, 0), entry(u, 1)>>}

\* coupons valid from day 1 to day 2, with every combination of the fields
\* the gate reads
GateCoupons(u) ==
    {[NewCoupon(CHOOSE k \in CouponKinds : k.discountType = "fixed",
                FALSE, limit, 1) EXCEPT
         !.isActive = a, !.validFrom = 1, !.validUntil = 2,
         !.usageCount = n, !.applicableUsers = au, !.userUsage = l] :
       a \in BOOLEAN, limit \in {NoLimit, 1}, n \in {0, 1},
       au \in {{}, {"u2"}, Users}, l \in GateLedgers(u)}

GateTimes == 0..3

InitGate ==
    /\ InitCouponIdle
    /\ InitCreateIdle
    /\ InitLifeIdle
    /\ \E u \in Users, t \in GateTimes : \E c \in GateCoupons(u) :
          evalIn = [used |-> TRUE, coupon |-> c, user |-> u, t |-> t]
    /\ evalOut = [used |-> FALSE]

\* one call of coupon.canUserUse(userId) at time evalIn.t
EvaluateGate ==
    /\ ~evalOut.used
    /\ evalOut' = [used |-> TRUE,
                   result |-> canUserUse(evalIn.coupon, evalIn.user, evalIn.t)]
    /\ UNCHANGED <<now, couponVars, evalIn, createVars, lifeVars>>

NextGate == EvaluateGate

SpecGate == InitGate /\ [][NextGate]_vars

\* the reasons of the gate in the order of the claim, each with its condition
GateReasons ==
    LET c == evalIn.coupon
        u == evalIn.user
        t == evalIn.t
        mine == {i \in 1..Len(c.userUsage) : c.userUsage[i].user = u}
    IN << <<"NotActive", ~c.isActive>>,
          <<"Expired", t > c.validUntil>>,
          <<"NotYetValid", t < c.validFrom>>,
          <<"GlobalLimitReached",
            c.maxUsageLimit # NoLimit /\ c.usageCount >= c.maxUsageLimit>>,
          <<"UserNotEligible", c.applicableUsers # {} /\ u \notin c.applicableUsers>>,
          <<"UserLimitReached",
            \E i \in mine : c.userUsage[i].usedCount >= c.maxUsagePerUser>> >>

\* C18: canUserUse rejects with exactly the first reason, in the order not
\* active, expired (now > validUntil), not yet valid (now < validFrom), global
\* limit reached, user not eligible, user limit reached, whose condition
\* holds, and accepts when none holds.
C18_GateOrder ==
    LET applicable == {i \in 1..Len(GateReasons) : GateReasons[i][2]}
    IN evalOut.used =>
          IF applicable = {}
          THEN evalOut.result.valid
          ELSE /\ ~evalOut.result.valid
               /\ \E i \in applicable :
                     /\ \A j \in applicable : i <= j
                     /\ evalOut.result.reason = GateReasons[i][1]

\* an expired coupon that is also at its global cap, for a user who is not
\* on its allow-list and has used it up, is rejected as expired
C18_Witness ==
    /\ evalOut.used
    /\ evalIn.coupon.isActive
    /\ evalIn.t > evalIn.coupon.validUntil
    /\ GateReasons[4][2] /\ GateReasons[5][2] /\ GateReasons[6][2]
    /\ evalOut.result.reason = "Expired"

\* ------------------------------------------- failure of a sold-counter update

\* C20: when an update of the status to delivered fails at the increment of
\* a product's totalSold, the stored order is delivered all the same: its
\* status, its deliveredAt and the history entry of the change are persisted.
C20_DeliveredSurvivesFailedInc ==
    [][\A p \in LifeProcs :
          (lpc[p] = "upd_inc" /\ lpc'[p] = "failed") =>
             /\ lorder'.orderStatus = "delivered"
             /\ lorder'.deliveredAt # NoDate
             /\ lorder'.statusHistory[Len(lorder'.statusHistory)] = "delivered"]_vars

\* -------------------------------------------------------- the sold counter

\* the order has entered delivered: its history holds the status
EnteredDelivered ==
    \E i \in 1..Len(lorder.statusHistory) : lorder.statusHistory[i] = "delivered"

\* no status update ended in a database error
NoUpdateFailed ==
    \A p \in LifeProcs : ~(lreq[p].kind = "update" /\ lpc[p] = "failed")

\* C21: once every request has answered (none of the status updates with a
\* database error), each product's totalSold is its initial value plus the
\* quantities of its line items if the order has entered delivered, counted
\* once however often delivered was set, and its initial value otherwise.
C21_SoldCountedOnce ==
    (LifeQuiescent /\ NoUpdateFailed) =>
        \A x \in Products :
            products[x].totalSold =
                IF EnteredDelivered
                THEN ItemQty(lorder.items, x, Skus \cup {NoSku})
                ELSE 0

\* -------------------------------------------------------- the status history

\* C22: a step that changes the stored orderStatus appends exactly one
\* statusHistory entry, carrying the new status; a step that leaves the status
\* as it is appends none; the last entry is the stored status.
C22_HistoryTracksStatus ==
    [][/\ lorder'.orderStatus # lorder.orderStatus =>
             lorder'.statusHistory =
                 Append(lorder.statusHistory, lorder'.orderStatus)
       /\ lorder'.orderStatus = lorder.orderStatus =>
             lorder'.statusHistory = lorder.statusHistory
       /\ lorder'.statusHistory[Len(lorder'.statusHistory)] =
             lorder'.orderStatus]_vars

\* ------------------------------------------------------- shipment webhooks

\* the order of InitLife after three requests served one after the other at
\* clock 1: the admin's update to delivered, the owner's createReturnShipment
\* (answered by Shiprocket), and the admin's update back to processing
HookOrder(items) ==
    LET o0 == NewLifeOrder("u1", items)
        o1 == SaveLifeOrder(o0, o0, updateStatus(o0, "delivered", 1),
                            <<"delivered">>)
        o2 == SaveLifeOrder(o1, o1,
                            [o1 EXCEPT !.isReturned = TRUE,
                                       !.returnRequestedAt = 1,
                                       !.returnStatus = "requested"], <<>>)
    IN SaveLifeOrder(o2, o2, updateStatus(o2, "processing", 1),
                     <<"processing">>)

\* the products after the same three requests: the sold counters raised
HookProducts(items) ==
    [x \in Products |->
        [NewProduct(x = "p2", MaxStock) EXCEPT
            !.totalSold = ItemQty(items, x, Skus \cup {NoSku})]]

\* the webhook requests arrive for an order that has a shipment
InitHook ==
    /\ InitCouponIdle
    /\ InitEvalIdle
    /\ placed = <<>>
    /\ cpc = [c \in 1..MaxCreate |-> "done"]
    /\ creq = [c \in 1..MaxCreate |-> Idle]
    /\ clock = 1
    /\ \E items \in LifeItemLists :
          /\ lorder = HookOrder(items)
          /\ products = HookProducts(items)
    /\ lpc = [p \in LifeProcs |-> "idle"]
    /\ lreq = [p \in LifeProcs |-> Idle]
    /\ shipments = 1

SpecHook == InitHook /\ [][NextLifeSerial]_vars

\* the state InitHook starts from, as the lifecycle requests leave it
HookStateReached ==
    /\ LifeQuiescent
    /\ shipments = 1
    /\ \E items \in LifeItemLists :
          lorder = HookOrder(items) /\ products = HookProducts(items)

\* C23: for an order that has a shipment, the step that processes the
\* shipment's 'delivered' event leaves the order delivered, and the step that
\* processes a 'picked' event on a delivered order leaves it delivered.
C23_DeliveredBeforePicked ==
    [][\A p \in LifeProcs :
          /\ (shipments > 0
              /\ handleShiprocketWebhook(p, 1, "shipment_delivered")) =>
                 lorder'.orderStatus = "delivered"
          /\ (shipments > 0 /\ lorder.orderStatus = "delivered"
              /\ handleShiprocketWebhook(p, 1, "shipment_picked")) =>
                 lorder'.orderStatus = "delivered"]_vars

\* ------------------------------------------------ the effects of a cancellation

\* C24: in every reachable state a stored order with orderStatus cancelled has
\* isCancelled true and cancelledAt set, and the stock of every line item's
\* product (and variant) is its value before the cancellation plus the item's
\* quantity.
C24_CancelledImpliesEffects ==
    lorder.orderStatus = "cancelled" =>
        /\ lorder.isCancelled
        /\ lorder.cancelledAt # NoDate
        /\ \A x \in Products :
              /\ products[x].stock = MaxStock + AllItems(x, Skus \cup {NoSku})
              /\ products[x].hasVariants =>
                    \A k \in Skus :
                        products[x].variants[k] = MaxStock + AllItems(x, {k})

\* ------------------------------------------------- coupon administration

\* the request bodies of the administrator's edits: one field each
AdminPatches ==
    [field : {"discountValue"}, value : {0, 100, Rs(2000)}]
    \cup [field : {"discountType"}, value : {"percentage", "fixed"}]
    \cup [field : {"maxDiscountAmount"}, value : {0, Rs(2000)}]
    \cup [field : {"isActive"}, value : BOOLEAN]
    \cup [field : {"validUntil"}, value : {0, MaxDay + 2}]

\* deleteCoupon, lines 260-271: Coupon.findById and isActive = false on the
\* in-memory coupon
DeleteFindCoupon(p) ==
    /\ Arrives(p)
    /\ req' = [req EXCEPT ![p] = [kind |-> "delete", cpn0 |-> coupon,
                                  cpn |-> [coupon EXCEPT !.isActive = FALSE]]]
    /\ pc' = [pc EXCEPT ![p] = "delete_save"]
    /\ UNCHANGED <<now, coupon, orders, commits, evalVars, createVars, lifeVars>>

\* deleteCoupon, line 273: await coupon.save(), with the pre-save hook; the
\* answered request keeps its kind
DeleteSave(p) ==
    /\ pc[p] = "delete_save"
    /\ IF PreSaveOk(req[p].cpn, now) /\ SchemaOk(req[p].cpn)
       THEN /\ coupon' = SaveCouponFields(coupon, req[p].cpn0, req[p].cpn)
            /\ pc' = [pc EXCEPT ![p] = "done"]
       ELSE /\ pc' = [pc EXCEPT ![p] = "failed"]
            /\ UNCHANGED coupon
    /\ req' = [req EXCEPT ![p] = [kind |-> "delete"]]
    /\ UNCHANGED <<now, orders, commits, evalVars, createVars, lifeVars>>

\* the administrator's requests start on SAVE20 or FLAT50, valid until day 2
\* or beyond the last day, and on two orders just placed
InitAdmin ==
    /\ now = 1
    /\ \E k \in CouponKinds, until \in {2, MaxDay + 2} :
          coupon = [NewCoupon(k, FALSE, NoLimit, 2) EXCEPT !.validUntil = until]
    /\ orders = InitOrders
    /\ pc = [p \in Procs |-> "idle"]
    /\ req = [p \in Procs |-> Idle]
    /\ commits = [o \in OrderIds |-> 0]
    /\ InitEvalIdle
    /\ InitCreateIdle
    /\ InitLifeIdle

NextAdmin ==
    \/ Tick
    \/ \E p \in Procs :
          \/ \E u \in Users, o \in OrderIds : ApplyFindOrder(p, u, o)
          \/ ApplyFindCoupon(p)
          \/ ApplySaveOrder(p)
          \/ ApplyCommit(p)
          \/ \E u \in Users, o \in OrderIds : RemoveFindOrder(p, u, o)
          \/ RemoveSave(p)
          \/ \E patch \in AdminPatches : UpdateFindCoupon(p, patch)
          \/ UpdateSave(p)
          \/ DeleteFindCoupon(p)
          \/ DeleteSave(p)

SpecAdmin == InitAdmin /\ [][NextAdmin]_vars

C26_SnapshotImmutable ==
    [][\A p \in Procs :
          (pc'[p] # pc[p]
           /\ {pc[p], pc'[p]} \cap {"update_save", "delete_save"} # {}) =>
              orders' = orders]_vars

\* C26 witness: order 1 carries the snapshot of SAVE20 (20 percent, Rs 200
\* off) while the coupon has since been edited to 100 percent and deactivated
\* by deleteCoupon
C26_Witness ==
    /\ orders[1].coupon.present
    /\ orders[1].coupon.discountType = "percentage"
    /\ orders[1].coupon.discountAmount = Rs(200)
    /\ orders[1].totalAmount = Rs(1000) - Rs(200) + Rs(50)
    /\ coupon.discountValue = 100
    /\ ~coupon.isActive
    /\ \E p \in Procs : req[p].kind = "delete" /\ pc[p] = "done"

\* C27: the stored coupon has validUntil > validFrom; a percentage coupon has
\* 1 <= discountValue <= 100 and a maxDiscountAmount; a fixed coupon has a
\* discountValue of Rs 1 or more; and a step of updateCoupon that ends in an
\* error leaves the stored coupon as it was.
C27_CouponRecordInvariants ==
    [][/\ coupon'.validUntil > coupon'.validFrom
       /\ (coupon'.discountType = "percentage") =>
             /\ 1 <= coupon'.discountValue /\ coupon'.discountValue <= 100
             /\ coupon'.maxDiscountAmount # 0
       /\ (coupon'.discountType = "fixed") => coupon'.discountValue >= Rs(1)
       /\ \A p \in Procs :
             (pc[p] = "update_save" /\ pc'[p] = "failed") => coupon' = coupon]_vars

\* C28: every deleteCoupon request succeeds, whatever the state of the coupon
\* (active, past validUntil, at its usage cap); it leaves the coupon inactive
\* and its usage ledger as it was; and no applyCoupon passes the eligibility
\* tests while the coupon is inactive.
C28_SoftDeleteDeactivates ==
    [][\A p \in Procs :
          /\ (pc[p] = "delete_save" /\ pc'[p] # pc[p]) =>
                /\ pc'[p] = "done"
                /\ ~coupon'.isActive
                /\ coupon'.usageCount = coupon.usageCount
                /\ coupon'.userUsage = coupon.userUsage
          /\ (pc[p] = "apply_findCoupon" /\ pc'[p] = "apply_saveOrder") =>
                coupon.isActive]_vars

\* ---------------------------------------------------- validate versus apply

\* validateCoupon, lines 344-371: the cart-total test, findValidCoupon, the
\* test `!userValidation` of the object canUserUse returns, which is never
\* true, and calculateDiscount
validateCoupon(c, u, cartTotal, cartItems, t) ==
    LET userValidation == canUserUse(c, u, t)
        discountResult == calculateDiscount(c, cartTotal, cartItems)
        objectIsFalsy == FALSE
    IN IF cartTotal <= 0 THEN [valid |-> FALSE, reason |-> "CartTotalNotPositive"]
       ELSE IF ~findValidCoupon(c, t)
            THEN [valid |-> FALSE, reason |-> "InvalidCouponCode"]
       ELSE IF objectIsFalsy
            THEN [valid |-> FALSE, reason |-> userValidation.reason]
       ELSE IF ~discountResult.valid
            THEN [valid |-> FALSE, reason |-> discountResult.reason]
       ELSE [valid |-> TRUE, reason |-> "ok"]

\* applyCoupon, lines 433-464: findValidCoupon, canUserUse and
\* calculateDiscount on the order's subtotal and items
applyEligibility(c, u, subtotal, items, t) ==
    LET userValidation == canUserUse(c, u, t)
        discountResult == calculateDiscount(c, subtotal, items)
    IN IF ~findValidCoupon(c, t)
       THEN [valid |-> FALSE, reason |-> "InvalidCouponCode"]
       ELSE IF ~userValidation.valid
            THEN [valid |-> FALSE, reason |-> userValidation.reason]
       ELSE IF ~discountResult.valid
            THEN [valid |-> FALSE, reason |-> discountResult.reason]
       ELSE [valid |-> TRUE, reason |-> "ok"]

InitValidate ==
    /\ InitCouponIdle
    /\ InitCreateIdle
    /\ InitLifeIdle
    /\ \E u \in Users, t \in GateTimes, total \in {Rs(30), Rs(1000)} :
          \E c \in GateCoupons(u) :
             evalIn = [used |-> TRUE, coupon |-> c, user |-> u, t |-> t,
                       cartTotal |-> total, cartItems |-> {"p1"}]
    /\ evalOut = [used |-> FALSE]

\* one validateCoupon request, and what applyCoupon's tests say of the same
\* coupon, user, total and items at the same time
EvaluateValidate ==
    /\ ~evalOut.used
    /\ evalOut' = [used |-> TRUE,
                   validate |-> validateCoupon(evalIn.coupon, evalIn.user,
                                               evalIn.cartTotal,
                                               evalIn.cartItems, evalIn.t),
                   apply |-> applyEligibility(evalIn.coupon, evalIn.user,
                                              evalIn.cartTotal,
                                              evalIn.cartItems, evalIn.t)]
    /\ UNCHANGED <<now, couponVars, evalIn, createVars, lifeVars>>

NextValidate == EvaluateValidate

SpecValidate == InitValidate /\ [][NextValidate]_vars

\* C29: validateCoupon reports the coupon valid only if applyCoupon's
\* eligibility tests pass for the same user, total and items; a coupon at its
\* global cap, a user absent from a non-empty allow-list and a user at the
\* per-user cap are each rejected with that reason when a valid coupon was
\* found.
C29_ValidateAgreesWithApply ==
    LET c == evalIn.coupon
        v == canUserUse(c, evalIn.user, evalIn.t)
    IN evalOut.used =>
          /\ evalOut.validate.valid => evalOut.apply.valid
          /\ (findValidCoupon(c, evalIn.t)
              /\ v.reason \in {"GlobalLimitReached", "UserNotEligible",
                               "UserLimitReached"}) =>
                 /\ ~evalOut.validate.valid
                 /\ evalOut.validate.reason = v.reason

\* ------------------------------------------------------ restoring stock once

\* C30: whatever cancel requests ran or overlap on the order, each line item's
\* quantity is added back at most once: no product's stock, and no variant's,
\* exceeds its value before the cancellations plus the quantities of the
\* order's line items.
C30_StockRestoredAtMostOnce ==
    \A x \in Products :
        /\ products[x].stock <= MaxStock + AllItems(x, Skus \cup {NoSku})
        /\ \A k \in Skus :
              products[x].hasVariants =>
                  products[x].variants[k] <= MaxStock + AllItems(x, {k})

====
